---- MODULE Spec2Model ----
(***************************************************************************)
(* A model of generate_aggregate_index.py: the date parser, the two CSV    *)
(* readers, the repository aggregation and the dashboard partition.        *)
(*                                                                         *)
(* Text is modelled by what the code does with it:                         *)
(*  - a timestamp string is a sequence of tokens (a YYYY-MM-DD date, a     *)
(*    " HH:MM:SS" time, the literal "+00:00", another +-HH:MM offset, or   *)
(*    other text); str.replace and strptime act on those tokens;           *)
(*  - a CSV field is a record saying whether the column is absent, the     *)
(*    text empty, an integer literal, or other text; int() acts on it.     *)
(* A datetime is an integer number of ticks, TicksPerDay ticks to the day. *)
(***************************************************************************)
EXTENDS Integers, Sequences, FiniteSets, TLC

VARIABLES
    now,        \* datetime.utcnow(), in ticks
    date_str,   \* parse_date: its argument
    parsed,     \* parse_date: its result, or Unset before the call
    vc,         \* read_views_clones: the locals of the running call
    tally,      \* what the rows handed to read_views_clones amount to
    cum_in,     \* read_cumulative_series: the rows of the file
    cum_out,    \* read_cumulative_series: its result, or Unset
    repos,      \* main: the list of owner/name specs
    fs,         \* the data files of every repository
    stats,      \* main: what collect_repo_stats returned
    page,       \* main: what generate_dashboard_html produced
    pc,         \* main: the position in the run
    spark_in,   \* generate_sparkline_svg: its arguments
    spark_out   \* generate_sparkline_svg: its result, or Unset

vars == <<now, date_str, parsed, vc, tally, cum_in, cum_out, repos, fs, stats, page, pc,
          spark_in, spark_out>>

(***************************************************************************)
(* Bounds of the model.                                                    *)
(***************************************************************************)
TicksPerDay == 2
MaxTokens == 3
MaxRows == 2
MaxCumRows == 3
MaxRepos == 3

\* The day the run happens on, and the times of day a timestamp may carry.
Today == 200
TimesOfDay == {0, 1}

Unset == [set |-> FALSE]

(***************************************************************************)
(* Timestamp strings.                                                      *)
(***************************************************************************)
DateTok(d) == [k |-> "date", v |-> d]
TimeTok(t) == [k |-> "time", v |-> t]
UtcTok == [k |-> "utc", v |-> 0]
OffTok(o) == [k |-> "off", v |-> o]
JunkTok == [k |-> "junk", v |-> 0]

\* The datetime a date and a time of day encode.
DateTime(d, t) == d * TicksPerDay + t

None == [ok |-> FALSE, dt |-> 0]
Some(dt) == [ok |-> TRUE, dt |-> dt]

\* str.replace(old, ""): every occurrence of the token is removed.
Replace(s, old) == SelectSeq(s, LAMBDA x : x # old)

\* The four formats of parse_date, as sequences of directives and literals.
FORMATS ==
    << <<"%Y-%m-%d", " %H:%M:%S", "%z">>,
       <<"%Y-%m-%d", " %H:%M:%S", "+00:00">>,
       <<"%Y-%m-%d", " %H:%M:%S">>,
       <<"%Y-%m-%d">> >>

\* Whether one token of the string matches one element of the format.
Matches(tok, dir) ==
    CASE dir = "%Y-%m-%d" -> tok.k = "date"
      [] dir = " %H:%M:%S" -> tok.k = "time"
      [] dir = "%z" -> tok.k \in {"utc", "off"}
      [] dir = "+00:00" -> tok.k = "utc"
      [] OTHER -> FALSE

\* datetime.strptime(s, fmt): None stands for ValueError. The whole string
\* must be consumed by the whole format. The result carries the wall-clock
\* reading; callers drop the tzinfo.
Strptime(s, fmt) ==
    IF Len(s) = Len(fmt) /\ Len(s) >= 1
       /\ \A i \in 1..Len(s) : Matches(s[i], fmt[i])
    THEN Some(DateTime(s[1].v, IF Len(s) >= 2 THEN s[2].v ELSE 0))
    ELSE None

\* The loop of parse_date from format i on: the first format that parses.
RECURSIVE TryFormats(_, _)
TryFormats(s, i) ==
    IF i > Len(FORMATS) THEN None
    ELSE LET r == Strptime(Replace(s, UtcTok), Replace(FORMATS[i], "%z"))
         IN  IF r.ok THEN r ELSE TryFormats(s, i + 1)

parse_date(s) ==
    IF s = <<>> THEN None ELSE TryFormats(s, 1)

(***************************************************************************)
(* CSV fields and int().                                                   *)
(***************************************************************************)
Absent == [k |-> "absent", v |-> 0]    \* no such column, or a short row
Empty == [k |-> "empty", v |-> 0]      \* the text ""
Text == [k |-> "text", v |-> 0]        \* text that is no integer literal
Num(n) == [k |-> "num", v |-> n]       \* the decimal text of n

Raise == [ok |-> FALSE, v |-> 0]
Value(n) == [ok |-> TRUE, v |-> n]

\* A plausible slip: int(row.get(col)) without the "or 0".
IntFieldNoDefault(f) ==
    IF f.k = "num" THEN Value(f.v) ELSE Raise

\* int(row.get(col, 0) or 0): an absent column gives the default 0, a short
\* row gives None and "" is falsy, so both become 0; any other text goes to
\* int(), which raises ValueError unless it is an integer literal.
IntField(f) ==
    CASE f.k = "absent" -> Value(0)
      [] f.k = "empty" -> Value(0)
      [] f.k = "num" -> Value(f.v)
      [] OTHER -> Raise

VIEWS_DAYS == 14
CUM_DAYS == 90

\* datetime.utcnow() - timedelta(days=days)
Cutoff(days) == now - days * TicksPerDay

(***************************************************************************)
(* read_views_clones.                                                      *)
(***************************************************************************)
\* The locals at the start of the call.
VcStart ==
    [views_series |-> <<>>, clones_series |-> <<>>,
     views_total |-> 0, views_unique |-> 0,
     clones_total |-> 0, clones_unique |-> 0,
     raised |-> FALSE, returned |-> FALSE, rows |-> 0]

\* The six values the call returns.
VcResult(a) ==
    [views_series |-> a.views_series, clones_series |-> a.clones_series,
     views_total |-> a.views_total, views_unique |-> a.views_unique,
     clones_total |-> a.clones_total, clones_unique |-> a.clones_unique]

\* Whether the row passes the test of line 87.
VcInWindow(row) ==
    LET date == parse_date(row.time_iso8601)
    IN  date.ok /\ date.dt >= Cutoff(VIEWS_DAYS)

\* One pass of the loop body, statement by statement; an exception leaves
\* the loop with what the statements before it have done.
VcRow(a, row) ==
    LET v_unique == IntField(row.views_unique)
        c_unique == IntField(row.clones_unique)
        v_total == IntField(row.views_total)
        c_total == IntField(row.clones_total)
        a0 == [a EXCEPT !.rows = @ + 1]
        a1 == [a0 EXCEPT !.views_series = Append(@, v_unique.v),
                         !.clones_series = Append(@, c_unique.v)]
        a2 == [a1 EXCEPT !.views_total = @ + v_total.v,
                         !.views_unique = @ + v_unique.v]
        a3 == [a2 EXCEPT !.clones_total = @ + c_total.v,
                         !.clones_unique = @ + c_unique.v]
        Abort(x) == [x EXCEPT !.raised = TRUE, !.returned = TRUE]
    IN  IF ~VcInWindow(row) THEN a0
        ELSE IF ~v_unique.ok THEN Abort(a0)
        ELSE IF ~c_unique.ok THEN Abort(a0)
        ELSE IF ~v_total.ok THEN Abort(a1)
        ELSE IF ~c_total.ok THEN Abort(a2)
        ELSE a3

\* The loop over the rows of an existing file, then the return.
RECURSIVE VcRows(_, _)
VcRows(a, file) ==
    IF a.returned \/ file = <<>> THEN [a EXCEPT !.returned = TRUE]
    ELSE VcRows(VcRow(a, Head(file)), Tail(file))

Missing == [exists |-> FALSE, rows |-> <<>>]
File(rows) == [exists |-> TRUE, rows |-> rows]

\* The whole call on a file that may not exist.
read_views_clones(file) ==
    IF ~file.exists THEN VcResult(VcStart)
    ELSE VcResult(VcRows(VcStart, file.rows))

(***************************************************************************)
(* read_cumulative_series.                                                 *)
(***************************************************************************)
\* A plausible slip: the rows are left in file order.
SortByDateOmitted(all) == all

\* A plausible slip: reverse=True, as in the sort of collect_repo_stats.
SortByDateDescending(all) ==
    LET Insert(s, e) ==
            LET p == Cardinality({i \in 1..Len(s) : s[i].date >= e.date})
            IN  SubSeq(s, 1, p) \o <<e>> \o SubSeq(s, p + 1, Len(s))
        S[n \in 0..Len(all)] ==
            IF n = 0 THEN <<>> ELSE Insert(S[n - 1], all[n])
    IN  S[Len(all)]

\* list.sort(key=lambda x: x[0]): ascending by date, and stable: each pair
\* goes behind every pair already placed whose date is not later.
SortByDate(all) ==
    LET Insert(s, e) ==
            LET p == Cardinality({i \in 1..Len(s) : s[i].date <= e.date})
            IN  SubSeq(s, 1, p) \o <<e>> \o SubSeq(s, p + 1, Len(s))
        S[n \in 0..Len(all)] ==
            IF n = 0 THEN <<>> ELSE Insert(S[n - 1], all[n])
    IN  S[Len(all)]

\* The loop of lines 117-121: the (date, value) pairs of the rows whose date
\* parses, in file order; ok is FALSE when int() raised on some row.
RECURSIVE CumPairs(_, _)
CumPairs(all, rows) ==
    IF rows = <<>> THEN [ok |-> TRUE, all |-> all]
    ELSE LET row == Head(rows)
             date == parse_date(row.time_iso8601)
             value == IntField(row.value)
         IN  IF ~value.ok THEN [ok |-> FALSE, all |-> all]
             ELSE IF date.ok
                  THEN CumPairs(Append(all, [date |-> date.dt, value |-> value.v]),
                                Tail(rows))
                  ELSE CumPairs(all, Tail(rows))

CumEmpty == [series |-> <<>>, current_value |-> 0, growth |-> 0]

\* Lines 123-137, on the pairs read.
CumCompute(pairs) ==
    IF pairs = <<>> THEN CumEmpty
    ELSE LET all_values == SortByDate(pairs)
             cutoff == Cutoff(CUM_DAYS)
             current_value == all_values[Len(all_values)].value
             inside == SelectSeq(all_values, LAMBDA x : x.date >= cutoff)
             before == SelectSeq(all_values, LAMBDA x : x.date < cutoff)
             series == [i \in 1..Len(inside) |-> inside[i].value]
             growth ==
                 IF before # <<>> THEN current_value - before[Len(before)].value
                 ELSE IF series # <<>>
                      THEN IF series[1] # current_value
                           THEN current_value - series[1]
                           ELSE current_value
                      ELSE 0
         IN  [series |-> series, current_value |-> current_value,
              growth |-> growth]

\* The whole call: an exception anywhere in the try block is swallowed and
\* the locals are returned as they stand, which is as they were initialised,
\* since they are only assigned after the loop.
read_cumulative_series(file) ==
    IF ~file.exists THEN CumEmpty
    ELSE LET r == CumPairs(<<>>, file.rows)
         IN  IF r.ok THEN CumCompute(r.all) ELSE CumEmpty

\* Lines 128-130: the (date, value) pairs the elements of the series are
\* taken from, one pair per element, in the order of the elements.
CumSeriesPairs(file) ==
    IF ~file.exists THEN <<>>
    ELSE LET r == CumPairs(<<>>, file.rows)
         IN  IF ~r.ok THEN <<>>
             ELSE SelectSeq(SortByDate(r.all),
                            LAMBDA x : x.date >= Cutoff(CUM_DAYS))

\* Lines 85-91: the dates of the rows the elements of views_series and
\* clones_series are taken from, one date per element: a pass of the loop
\* that appends to the series contributes the date of its row.
RECURSIVE VcSeriesDates(_, _)
VcSeriesDates(a, file) ==
    IF a.returned \/ file = <<>> THEN <<>>
    ELSE LET b == VcRow(a, Head(file))
             here == IF Len(b.views_series) > Len(a.views_series)
                     THEN <<parse_date(Head(file).time_iso8601).dt>>
                     ELSE <<>>
         IN  here \o VcSeriesDates(b, Tail(file))

(***************************************************************************)
(* collect_repo_stats.                                                     *)
(***************************************************************************)
\* An owner/name spec is the sequence of its two path components.
RepoName(repo_spec) == repo_spec[2]     \* repo_spec.split("/")[1]

\* A plausible slip: "nonzero" in place of "> 0".
HasActivityNonzero(r) ==
    r.views_unique # 0 \/ r.clones_unique # 0 \/ r.stars # 0 \/ r.forks # 0

\* Lines 178-183.
HasActivity(r) ==
    r.views_unique > 0 \/ r.clones_unique > 0 \/ r.stars > 0 \/ r.forks > 0

\* One pass of the loop of collect_repo_stats: the record of one spec.
RepoRecord(repo_spec, files) ==
    LET vc_ == read_views_clones(files.views)
        st == read_cumulative_series(files.stars)
        fk == read_cumulative_series(files.forks)
        r == [name |-> RepoName(repo_spec), full_name |-> repo_spec,
              stars |-> st.current_value, forks |-> fk.current_value,
              views_total |-> vc_.views_total, views_unique |-> vc_.views_unique,
              clones_total |-> vc_.clones_total,
              clones_unique |-> vc_.clones_unique,
              views_series |-> vc_.views_series,
              clones_series |-> vc_.clones_series,
              stars_series |-> st.series, forks_series |-> fk.series,
              stars_growth |-> st.growth, forks_growth |-> fk.growth]
    IN  [has_activity |-> HasActivity(r)] @@ r

\* The records in the order of the input list, before the sort.
BuildStats(rs, files) ==
    [i \in 1..Len(rs) |-> RepoRecord(rs[i], files[rs[i]])]

\* The sort key of line 188, compared as Python compares tuples.
KeyGE(x, y) ==
    \/ x.stars > y.stars
    \/ x.stars = y.stars /\ x.views_unique >= y.views_unique

\* A plausible slip: sorted ascending and then reversed, which turns the
\* records with equal keys around.
SortStatsReversed(s) ==
    LET Insert(t, e) ==
            LET p == Cardinality({i \in 1..Len(t) : ~KeyGE(e, t[i])})
            IN  SubSeq(t, 1, p) \o <<e>> \o SubSeq(t, p + 1, Len(t))
        S[n \in 0..Len(s)] ==
            IF n = 0 THEN <<>> ELSE Insert(S[n - 1], s[n])
    IN  S[Len(s)]

\* list.sort(key=..., reverse=True): descending, and still stable: each
\* record goes behind every record already placed whose key is not smaller.
SortStats(s) ==
    LET Insert(t, e) ==
            LET p == Cardinality({i \in 1..Len(t) : KeyGE(t[i], e)})
            IN  SubSeq(t, 1, p) \o <<e>> \o SubSeq(t, p + 1, Len(t))
        S[n \in 0..Len(s)] ==
            IF n = 0 THEN <<>> ELSE Insert(S[n - 1], s[n])
    IN  S[Len(s)]

collect_repo_stats(rs, files) == SortStats(BuildStats(rs, files))

(***************************************************************************)
(* Float arithmetic. Python's integers are unbounded and int / int raises  *)
(* OverflowError when the quotient is beyond the largest double. The       *)
(* integers of the model are 32-bit, so the scale is shrunk: FLOAT_MAX     *)
(* stands for the largest double (about 1.8e308) and HUGE for an integer   *)
(* literal of some 400 digits; every other number of the model stays far   *)
(* below FLOAT_MAX.                                                        *)
(***************************************************************************)
FLOAT_MAX == 1000
HUGE == 2000000

Abs(n) == IF n < 0 THEN -n ELSE n

\* Whether a / b raises OverflowError (b # 0).
TrueDivRaises(a, b) == Abs(a) \div Abs(b) > FLOAT_MAX

RECURSIVE SumSeq(_)
SumSeq(s) == IF s = <<>> THEN 0 ELSE Head(s) + SumSeq(Tail(s))

SeqMax(s) == CHOOSE m \in {s[i] : i \in 1..Len(s)} :
                 \A i \in 1..Len(s) : s[i] <= m
SeqMin(s) == CHOOSE m \in {s[i] : i \in 1..Len(s)} :
                 \A i \in 1..Len(s) : s[i] >= m

(***************************************************************************)
(* generate_sparkline_svg, format_number and the cards: whether they raise.*)
(***************************************************************************)
\* Lines 203-229: the only operation that can raise is the division of
\* line 227; val_range is never 0.
SparklineRaises(series1, series2, cumulative) ==
    LET all_values == series1 \o series2
    IN  IF all_values = <<>> THEN FALSE
        ELSE IF SeqMax(all_values) = 0 THEN FALSE
        ELSE LET min_val == IF cumulative THEN SeqMin(all_values) ELSE 0
                 max_val == SeqMax(all_values)
                 val_range == IF max_val # min_val THEN max_val - min_val ELSE 1
             IN  \E i \in 1..Len(all_values) :
                     TrueDivRaises(all_values[i] - min_val, val_range)

\* Line 223: the divisor of the horizontal step, max(len(series) - 1, 1).
StepDivisor(series) == IF Len(series) - 1 > 1 THEN Len(series) - 1 ELSE 1

\* Lines 215-217: the divisor of line 227, on values that are not all 0.
ValRange(all_values, cumulative) ==
    LET min_val == IF cumulative THEN SeqMin(all_values) ELSE 0
        max_val == SeqMax(all_values)
    IN  IF max_val # min_val THEN max_val - min_val ELSE 1

\* f"{x:.1f}" for x = num / den (num >= 0, den > 0), in tenths: the decimal
\* nearest to x, the even one when two are as near. The double i * step of
\* line 225 is 0 for i = 0 and differs from the quotient by less than one
\* part in 2^50, which moves no rounding at the widths of the model.
RoundTenths(num, den) ==
    LET q == (10 * num) \div den
        r == (10 * num) % den
    IN  IF 2 * r < den THEN q
        ELSE IF 2 * r > den THEN q + 1
        ELSE IF q % 2 = 0 THEN q ELSE q + 1

\* make_points, lines 219-229: the x of each point as it is written, in
\* tenths; the y is modelled by whether its division raises only.
MakePoints(series, width) ==
    [i \in 1..Len(series) |->
        RoundTenths((i - 1) * width, StepDivisor(series))]

\* What generate_sparkline_svg returns: the placeholder with the "no data"
\* label, the flat baseline, or one polyline for each series that is not
\* empty; ok = FALSE when it raises instead. series2 = None is <<>>.
SparkError == [ok |-> FALSE, kind |-> "error", points1 |-> <<>>, points2 |-> <<>>]
SparkPlaceholder(kind) ==
    [ok |-> TRUE, kind |-> kind, points1 |-> <<>>, points2 |-> <<>>]

generate_sparkline_svg(series1, series2, width, height, cumulative) ==
    LET all_values == series1 \o series2
    IN  IF all_values = <<>> THEN SparkPlaceholder("no data")
        ELSE IF SeqMax(all_values) = 0 THEN SparkPlaceholder("baseline")
        ELSE IF SparklineRaises(series1, series2, cumulative) THEN SparkError
        ELSE [ok |-> TRUE, kind |-> "polyline",
              points1 |-> MakePoints(series1, width),
              points2 |-> MakePoints(series2, width)]

\* Lines 251-255: n / 1000 is taken only when n >= 1000.
FormatNumberRaises(n) == n >= 1000 /\ TrueDivRaises(n, 1000)

\* generate_repo_card: the two sparklines and the two formatted counts.
RepoCardRaises(r) ==
    \/ SparklineRaises(r.views_series, r.clones_series, FALSE)
    \/ SparklineRaises(r.stars_series, r.forks_series, TRUE)
    \/ FormatNumberRaises(r.views_unique)
    \/ FormatNumberRaises(r.clones_unique)

(***************************************************************************)
(* generate_dashboard_html.                                                *)
(***************************************************************************)
\* Lines 342-351: the series of all records summed index by index, over the
\* length of the longest views series.
AggSeries(st, field) ==
    LET lens == {Len(st[i].views_series) : i \in 1..Len(st)}
        max_len == IF lens = {} THEN 0
                   ELSE CHOOSE m \in lens : \A l \in lens : l <= m
        At(i, k) == IF k <= Len(st[i][field]) THEN st[i][field][k] ELSE 0
    IN  [k \in 1..max_len |-> SumSeq([i \in 1..Len(st) |-> At(i, k)])]

\* The page: the active cards and the crickets rows in the order they are
\* written, or ok = FALSE when building it raised and nothing is printed.
NoPage == [ok |-> FALSE, cards |-> <<>>, crickets |-> <<>>]

generate_dashboard_html(st) ==
    LET active_repos == SelectSeq(st, LAMBDA r : r.has_activity)
        cricket_repos == SelectSeq(st, LAMBDA r : ~r.has_activity)
        total_views == SumSeq([i \in 1..Len(st) |-> st[i].views_unique])
        total_clones == SumSeq([i \in 1..Len(st) |-> st[i].clones_unique])
        raises ==
            \/ SparklineRaises(AggSeries(st, "views_series"),
                               AggSeries(st, "clones_series"), FALSE)
            \/ \E i \in 1..Len(active_repos) : RepoCardRaises(active_repos[i])
            \/ FormatNumberRaises(total_views)
            \/ FormatNumberRaises(total_clones)
    IN  IF raises THEN NoPage
        ELSE [ok |-> TRUE,
              cards |-> [i \in 1..Len(active_repos) |-> active_repos[i].full_name],
              crickets |-> [i \in 1..Len(cricket_repos) |->
                               cricket_repos[i].full_name]]

(***************************************************************************)
(* Inputs.                                                                 *)
(***************************************************************************)
SeqsUpTo(S, n) == UNION {[1..k -> S] : k \in 0..n}

NowChoices == {DateTime(Today, t) : t \in TimesOfDay}

\* Timestamp strings of up to MaxTokens tokens.
Tokens ==
    {DateTok(d) : d \in {Today - 1, Today}} \cup {TimeTok(t) : t \in TimesOfDay}
    \cup {UtcTok, OffTok(1), OffTok(-1), JunkTok}
DateStrs == SeqsUpTo(Tokens, MaxTokens)

\* The timestamps of the rows of a views/clones file: none, the day before
\* the window opens, the instant it opens when the run is at midnight, a day
\* inside it, a day after the run, and one with a +-HH:MM offset.
ViewTimes ==
    { <<>>,
      <<DateTok(Today - VIEWS_DAYS - 1)>>,
      <<DateTok(Today - VIEWS_DAYS), TimeTok(0)>>,
      <<DateTok(Today - 1), TimeTok(1), UtcTok>>,
      <<DateTok(Today + 1)>>,
      <<DateTok(Today - 1), TimeTok(0), OffTok(1)>> }
ViewFields == {Absent, Empty, Text, Num(1)}
ViewRows ==
    [time_iso8601 : ViewTimes, views_total : ViewFields,
     views_unique : ViewFields, clones_total : ViewFields,
     clones_unique : ViewFields]

\* The rows of a stargazers or forks file; value is the cell under value_col.
MaxVal == 2
CumTimes ==
    { <<>>,
      <<DateTok(Today - CUM_DAYS - 1)>>,
      <<DateTok(Today - CUM_DAYS), TimeTok(0)>>,
      <<DateTok(Today - 1), TimeTok(1), UtcTok>>,
      <<DateTok(Today)>> }
CumFields == {Empty, Text} \cup {Num(n) : n \in 1..MaxVal}
CumRowsOf == [time_iso8601 : CumTimes, value : CumFields]
CumFiles == {Missing} \cup {File(rows) : rows \in SeqsUpTo(CumRowsOf, MaxCumRows)}

\* The arguments of generate_sparkline_svg: sequences of up to MaxPoints
\* values, among them 0, equal values and one beyond the range of a double.
MaxPoints == 3
SparkValues == {-HUGE, 0, 1, 2}
SparkWidths == {1, 120}
SparkHeights == {32}
SparkArgs ==
    [series1 : SeqsUpTo(SparkValues, MaxPoints),
     series2 : SeqsUpTo(SparkValues, MaxPoints),
     width : SparkWidths, height : SparkHeights, cumulative : BOOLEAN]
NoSparkArgs ==
    [series1 |-> <<>>, series2 |-> <<>>, width |-> 120, height |-> 32,
     cumulative |-> FALSE]

(***************************************************************************)
(* The values of the variables a specification does not use.               *)
(***************************************************************************)
TallyStart ==
    [all_parse |-> TRUE, n_in |-> 0, n_out |-> 0,
     in_views_total |-> 0, in_views_unique |-> 0,
     in_clones_total |-> 0, in_clones_unique |-> 0,
     lenient |-> VcResult(VcStart), text_seen |-> FALSE,
     defaulted |-> FALSE, later |-> FALSE]

IdleDate == date_str = <<>> /\ parsed = Unset
IdleViews == vc = VcStart /\ tally = TallyStart
IdleCum == cum_in = Missing /\ cum_out = Unset
IdleMain == repos = <<>> /\ fs = <<>> /\ stats = <<>> /\ page = NoPage
            /\ pc = "idle"
IdleSpark == spark_in = NoSparkArgs /\ spark_out = Unset

(***************************************************************************)
(* parse_date on one string.                                               *)
(***************************************************************************)
InitDate ==
    /\ now \in NowChoices
    /\ date_str \in DateStrs
    /\ parsed = Unset
    /\ IdleViews /\ IdleCum /\ IdleMain /\ IdleSpark

ParseDateCall ==
    /\ ~parsed.set
    /\ parsed' = [set |-> TRUE, result |-> parse_date(date_str)]
    /\ UNCHANGED <<now, date_str, vc, tally, cum_in, cum_out, repos, fs, stats,
                   page, pc, spark_in, spark_out>>

NextDate == ParseDateCall

SpecDate == InitDate /\ [][NextDate]_vars

\* The strings of the four supported formats, with the datetime each encodes.
ValidDateStrs ==
    {<<DateTok(d)>> : d \in {Today - 1, Today}}
    \cup {<<DateTok(d), TimeTok(t)>> : d \in {Today - 1, Today}, t \in TimesOfDay}
    \cup {<<DateTok(d), TimeTok(t), z>> :
             d \in {Today - 1, Today}, t \in TimesOfDay,
             z \in {UtcTok, OffTok(1), OffTok(-1)}}
Encoded(s) == DateTime(s[1].v, IF Len(s) >= 2 THEN s[2].v ELSE 0)

\* C7: parse_date returns the encoded datetime for every valid string of the
\* four supported formats (an arbitrary +-HH:MM offset included) and None
\* for the empty string and for every string in none of the formats.
C7_ParseDateAllFormats ==
    parsed.set =>
        IF date_str \in ValidDateStrs
        THEN parsed.result = Some(Encoded(date_str))
        ELSE parsed.result = None

(***************************************************************************)
(* read_views_clones on a file handed over row by row.                     *)
(***************************************************************************)
\* The value a field stands for when text that is no number counts as 0.
FieldOrZero(f) == IF f.k = "num" THEN f.v ELSE 0

RowFields(row) ==
    {row.views_total, row.views_unique, row.clones_total, row.clones_unique}

\* What the rows read so far amount to, kept beside the call and never read
\* by it:
\*  - all_parse: every row had a timestamp that parses and no field of text
\*    that is no number; n_in and the in_ sums: the rows dated within
\*    [now - VIEWS_DAYS, now] and the sums of their fields; n_out: the rows
\*    dated outside;
\*  - lenient: the result if every row that passes line 87 were taken with
\*    each absent, empty or non-numeric field as 0;
\*  - text_seen: a row that passes line 87 had a non-numeric field;
\*  - defaulted: a row that passes line 87 had an absent or empty field and
\*    no non-numeric one; later: a row that passes line 87 came after it.
TallyRow(t, row) ==
    LET date == parse_date(row.time_iso8601)
        parses == date.ok /\ Text \notin RowFields(row)
        within == date.ok /\ date.dt >= Cutoff(VIEWS_DAYS) /\ date.dt <= now
        taken == date.ok /\ date.dt >= Cutoff(VIEWS_DAYS)
        dflt == taken /\ Text \notin RowFields(row)
                /\ RowFields(row) \cap {Absent, Empty} # {}
        l == t.lenient
    IN  [all_parse |-> t.all_parse /\ parses,
         n_in |-> IF parses /\ within THEN t.n_in + 1 ELSE t.n_in,
         n_out |-> IF parses /\ ~within THEN t.n_out + 1 ELSE t.n_out,
         in_views_total |->
             t.in_views_total
             + (IF parses /\ within THEN FieldOrZero(row.views_total) ELSE 0),
         in_views_unique |->
             t.in_views_unique
             + (IF parses /\ within THEN FieldOrZero(row.views_unique) ELSE 0),
         in_clones_total |->
             t.in_clones_total
             + (IF parses /\ within THEN FieldOrZero(row.clones_total) ELSE 0),
         in_clones_unique |->
             t.in_clones_unique
             + (IF parses /\ within THEN FieldOrZero(row.clones_unique) ELSE 0),
         lenient |->
             IF ~taken THEN l
             ELSE [views_series |->
                       Append(l.views_series, FieldOrZero(row.views_unique)),
                   clones_series |->
                       Append(l.clones_series, FieldOrZero(row.clones_unique)),
                   views_total |-> l.views_total + FieldOrZero(row.views_total),
                   views_unique |->
                       l.views_unique + FieldOrZero(row.views_unique),
                   clones_total |->
                       l.clones_total + FieldOrZero(row.clones_total),
                   clones_unique |->
                       l.clones_unique + FieldOrZero(row.clones_unique)],
         text_seen |-> t.text_seen \/ (taken /\ Text \in RowFields(row)),
         defaulted |-> t.defaulted \/ dflt,
         later |-> t.later \/ (t.defaulted /\ taken)]

InitViews ==
    /\ now \in NowChoices
    /\ vc = VcStart
    /\ tally = TallyStart
    /\ IdleDate /\ IdleCum /\ IdleMain /\ IdleSpark

\* Line 77: the file does not exist.
VcNoFile ==
    /\ ~vc.returned /\ vc.rows = 0
    /\ vc' = [vc EXCEPT !.returned = TRUE]
    /\ UNCHANGED <<now, date_str, parsed, tally, cum_in, cum_out, repos, fs,
                   stats, page, pc, spark_in, spark_out>>

\* The reader yields the next row and the loop body runs on it.
VcReadRow ==
    /\ ~vc.returned /\ vc.rows < MaxRows
    /\ \E row \in ViewRows :
           /\ vc' = VcRow(vc, row)
           /\ tally' = TallyRow(tally, row)
    /\ UNCHANGED <<now, date_str, parsed, cum_in, cum_out, repos, fs, stats,
                   page, pc, spark_in, spark_out>>

\* The reader is exhausted: line 99.
VcEndOfFile ==
    /\ ~vc.returned
    /\ vc' = [vc EXCEPT !.returned = TRUE]
    /\ UNCHANGED <<now, date_str, parsed, tally, cum_in, cum_out, repos, fs,
                   stats, page, pc, spark_in, spark_out>>

NextViews == VcNoFile \/ VcReadRow \/ VcEndOfFile

SpecViews == InitViews /\ [][NextViews]_vars

\* C1: when every row of the file parses, the two series have as many
\* elements as there are rows dated within [now - W, now], and the four
\* totals are the sums over those rows; rows dated before now - W or after
\* now count for nothing.
C1_WindowedSeriesAndTotals ==
    (vc.returned /\ tally.all_parse) =>
        /\ Len(vc.views_series) = tally.n_in
        /\ Len(vc.clones_series) = tally.n_in
        /\ vc.views_total = tally.in_views_total
        /\ vc.views_unique = tally.in_views_unique
        /\ vc.clones_total = tally.in_clones_total
        /\ vc.clones_unique = tally.in_clones_unique

\* C9 as claimed: every row that passes the window test is taken with each
\* absent, empty or non-numeric field as 0, and the read goes on to the
\* later rows: the result is always the lenient one and nothing is raised.
C9_NonNumericCountsAsZero ==
    ~vc.raised /\ VcResult(vc) = tally.lenient

\* C9 as amended: as long as no row that passes the window test has a field
\* of non-numeric text, nothing is raised and every such row is taken with
\* its absent and empty fields as 0 (one element in each series, its fields
\* in the totals), later rows included; a row that passes the window test
\* with a non-numeric field raises and ends the read.
C9_AbsentOrEmptyCountsAsZero ==
    /\ ~tally.text_seen => (~vc.raised /\ VcResult(vc) = tally.lenient)
    /\ tally.text_seen => (vc.raised /\ vc.returned)

\* A finished read in which a row with an absent or empty field was taken
\* and a later row was taken after it.
C9_Witness ==
    /\ vc.returned /\ ~vc.raised
    /\ tally.defaulted /\ tally.later
    /\ Len(vc.views_series) >= 2

\* C10 (read_views_clones): the row that raises contributes to nothing, so
\* the result is the one the rows before it gave, which is the result of the
\* file cut before that row.
C10_RaisingRowContributesNothing ==
    [][(vc'.raised /\ ~vc.raised) => VcResult(vc') = VcResult(vc)]_vars

(***************************************************************************)
(* read_cumulative_series on one file.                                     *)
(***************************************************************************)
InitCum ==
    /\ now \in NowChoices
    /\ cum_in \in CumFiles
    /\ cum_out = Unset
    /\ IdleDate /\ IdleViews /\ IdleMain /\ IdleSpark

ReadCumulativeCall ==
    /\ ~cum_out.set
    /\ cum_out' = [set |-> TRUE, result |-> read_cumulative_series(cum_in)]
    /\ UNCHANGED <<now, date_str, parsed, vc, tally, cum_in, repos, fs, stats,
                   page, pc, spark_in, spark_out>>

NextCum == ReadCumulativeCall

SpecCum == InitCum /\ [][NextCum]_vars

\* A file that exists, has rows, and whose rows all have a timestamp that
\* parses and a value that is a number (an empty cell is the number 0).
CumAllParse(file) ==
    /\ file.exists /\ file.rows # <<>>
    /\ \A i \in 1..Len(file.rows) :
           /\ parse_date(file.rows[i].time_iso8601).ok
           /\ file.rows[i].value # Text

RowDate(row) == Encoded(row.time_iso8601)
RowValue(row) == FieldOrZero(row.value)

\* Among the rows numbered in I, those of the greatest and of the least date.
Latest(rows, I) ==
    {i \in I : \A j \in I : RowDate(rows[j]) <= RowDate(rows[i])}
Earliest(rows, I) ==
    {i \in I : \A j \in I : RowDate(rows[j]) >= RowDate(rows[i])}
BeforeCutoff(rows) ==
    {i \in 1..Len(rows) : RowDate(rows[i]) < Cutoff(CUM_DAYS)}
FromCutoff(rows) ==
    {i \in 1..Len(rows) : RowDate(rows[i]) >= Cutoff(CUM_DAYS)}

\* C2: whatever the order of the rows in the file, the current value is the
\* value of a row of the greatest date; so it is the value of the latest
\* row whenever one row is the latest.
C2_CurrentValueIsLatest ==
    (cum_out.set /\ CumAllParse(cum_in)) =>
        \E i \in Latest(cum_in.rows, DOMAIN cum_in.rows) :
            cum_out.result.current_value = RowValue(cum_in.rows[i])

\* A file read whose last row is not of the greatest date and carries
\* another value than the one returned.
C2_Witness ==
    /\ cum_out.set /\ CumAllParse(cum_in)
    /\ Len(cum_in.rows) >= 2
    /\ Len(cum_in.rows) \notin Latest(cum_in.rows, DOMAIN cum_in.rows)
    /\ cum_out.result.current_value # RowValue(cum_in.rows[Len(cum_in.rows)])

Reordered(rows, p) == [i \in 1..Len(rows) |-> rows[p[i]]]

\* C3: the growth returned is the same for every order of the rows of the
\* file, rows of one date with different values included.
C3_GrowthOrderInvariant ==
    (cum_out.set /\ CumAllParse(cum_in)) =>
        \A p \in Permutations(1..Len(cum_in.rows)) :
            read_cumulative_series(File(Reordered(cum_in.rows, p))).growth
                = cum_out.result.growth

\* C8: on a file with rows, growth is the latest value minus the value of
\* the last sample before the cutoff or, when no sample is before the
\* cutoff, minus the value of the first sample of the window; so it is 0
\* when that first sample carries the latest value.
C8_GrowthIsNetChange ==
    (cum_out.set /\ CumAllParse(cum_in)) =>
        LET rows == cum_in.rows
            base == IF BeforeCutoff(rows) # {}
                    THEN Latest(rows, BeforeCutoff(rows))
                    ELSE Earliest(rows, FromCutoff(rows))
        IN  \E i \in base :
                cum_out.result.growth
                    = cum_out.result.current_value - RowValue(rows[i])

(***************************************************************************)
(* main: collect_repo_stats, then generate_dashboard_html.                 *)
(***************************************************************************)
RepoSpecs == {<<"o", "a">>, <<"o", "b">>, <<"o", "c">>}

InWindowTime == <<DateTok(Today - 1), TimeTok(1), UtcTok>>
ViewFileOf(vu, cu) ==
    File(<<[time_iso8601 |-> InWindowTime, views_total |-> vu,
            views_unique |-> vu, clones_total |-> cu, clones_unique |-> cu]>>)
CumFileOf(value) ==
    File(<<[time_iso8601 |-> InWindowTime, value |-> value]>>)

NoFiles == [views |-> Missing, stars |-> Missing, forks |-> Missing]

\* Repositories that differ and agree in stars and unique views.
SortFamily ==
    [views : {Missing, ViewFileOf(Num(1), Empty), ViewFileOf(Num(2), Empty)},
     stars : {Missing, CumFileOf(Num(1)), CumFileOf(Num(2))},
     forks : {Missing}]

\* Repositories with missing files, empty files, malformed rows, negative
\* counts and a count beyond the range of a double.
FaultFamily ==
    [views : {Missing, File(<<>>), ViewFileOf(Text, Num(1)),
              ViewFileOf(Num(-1), Num(0)), ViewFileOf(Num(0), Num(1)),
              ViewFileOf(Num(1), Empty), ViewFileOf(Num(HUGE), Num(1))},
     stars : {Missing, CumFileOf(Text), CumFileOf(Num(-1))},
     forks : {Missing, CumFileOf(Num(1))}]

\* Files of several rows in every order: views/clones rows of two days of
\* the window, of a day before it, and one that raises after its elements
\* are appended; cumulative rows of a day before the window and of two days
\* inside it.
OrderViewRow(time, n) ==
    [time_iso8601 |-> time, views_total |-> Num(n), views_unique |-> Num(n),
     clones_total |-> Num(n), clones_unique |-> Num(n)]
OrderViewRows ==
    {OrderViewRow(<<DateTok(Today - 2)>>, 1),
     OrderViewRow(InWindowTime, 2),
     OrderViewRow(<<DateTok(Today - VIEWS_DAYS - 1)>>, 3),
     [OrderViewRow(<<DateTok(Today)>>, 4) EXCEPT !.views_total = Text]}
OrderCumRows ==
    {[time_iso8601 |-> <<DateTok(Today - CUM_DAYS - 1)>>, value |-> Num(1)],
     [time_iso8601 |-> InWindowTime, value |-> Num(2)],
     [time_iso8601 |-> <<DateTok(Today)>>, value |-> Num(3)]}
OrderFamily ==
    [views : {File(rows) : rows \in SeqsUpTo(OrderViewRows, MaxRows)},
     stars : {File(rows) : rows \in SeqsUpTo(OrderCumRows, MaxRows)},
     forks : {Missing,
              File(<<[time_iso8601 |-> <<DateTok(Today)>>, value |-> Num(2)],
                     [time_iso8601 |-> InWindowTime, value |-> Num(1)]>>)}]

Range(s) == {s[i] : i \in 1..Len(s)}

\* The file systems in which the listed repositories are of the family and
\* the others have no data.
FileSystems(rs, family) ==
    {[r \in RepoSpecs |-> IF r \in Range(rs) THEN g[r] ELSE NoFiles] :
        g \in [Range(rs) -> family]}

\* Every row of these files is dated InWindowTime, inside both windows at
\* either time of the run, so the run is taken at one of them.
InitMain(names, family) ==
    /\ now = DateTime(Today, 1)
    /\ repos \in SeqsUpTo(names, MaxRepos)
    /\ fs \in FileSystems(repos, family)
    /\ stats = <<>>
    /\ page = NoPage
    /\ pc = "start"
    /\ IdleDate /\ IdleViews /\ IdleCum /\ IdleSpark

\* One repository whose files are of the order family.
InitOrder ==
    /\ now = DateTime(Today, 1)
    /\ repos = << <<"o", "a">> >>
    /\ fs \in FileSystems(repos, OrderFamily)
    /\ stats = <<>>
    /\ page = NoPage
    /\ pc = "start"
    /\ IdleDate /\ IdleViews /\ IdleCum /\ IdleSpark

Init ==
    \/ InitMain(RepoSpecs, SortFamily)
    \/ InitMain({<<"o", "a">>, <<"o", "b">>}, FaultFamily)
    \/ InitOrder

CollectStats ==
    /\ pc = "start"
    /\ stats' = collect_repo_stats(repos, fs)
    /\ pc' = "collected"
    /\ UNCHANGED <<now, date_str, parsed, vc, tally, cum_in, cum_out, repos, fs,
                   page, spark_in, spark_out>>

GenerateDashboard ==
    /\ pc = "collected"
    /\ page' = generate_dashboard_html(stats)
    /\ pc' = "done"
    /\ UNCHANGED <<now, date_str, parsed, vc, tally, cum_in, cum_out, repos, fs,
                   stats, spark_in, spark_out>>

Next == CollectStats \/ GenerateDashboard

Spec == Init /\ [][Next]_vars

Collected == pc \in {"collected", "done"}

SameKey(x, y) == x.stars = y.stars /\ x.views_unique = y.views_unique

\* C4: the records come back in descending order of stars, then of unique
\* views; records equal on both keep the order of the input list; and the
\* result is a permutation of the records built from the input list.
C4_SortedStablePermutation ==
    Collected =>
        LET built == BuildStats(repos, fs)
        IN  /\ Len(stats) = Len(built)
            /\ \A i, j \in 1..Len(stats) :
                   i < j =>
                       \/ stats[i].stars > stats[j].stars
                       \/ /\ stats[i].stars = stats[j].stars
                          /\ stats[i].views_unique >= stats[j].views_unique
            /\ \A k \in 1..Len(built) :
                   SelectSeq(stats, LAMBDA r : SameKey(r, built[k]))
                       = SelectSeq(built, LAMBDA r : SameKey(r, built[k]))

\* Three records of which two differ and agree on both keys, returned in
\* another order than they were built in.
C4_Witness ==
    /\ Collected
    /\ Len(stats) >= 3
    /\ stats # BuildStats(repos, fs)
    /\ \E i, j \in 1..Len(stats) :
           i < j /\ stats[i] # stats[j] /\ SameKey(stats[i], stats[j])

Count(s, x) == Cardinality({i \in 1..Len(s) : s[i] = x})

ZeroRecord(r) ==
    /\ r.stars = 0 /\ r.forks = 0
    /\ r.views_total = 0 /\ r.views_unique = 0
    /\ r.clones_total = 0 /\ r.clones_unique = 0
    /\ r.views_series = <<>> /\ r.clones_series = <<>>
    /\ r.stars_series = <<>> /\ r.forks_series = <<>>
    /\ r.stars_growth = 0 /\ r.forks_growth = 0

\* C5: whatever the data files hold, the run ends with a page on which
\* every requested repository is rendered exactly once, as a card or as a
\* crickets row; a repository with no data file has empty series and zero
\* counts and growth.
C5_EveryRepoRenderedOnce ==
    /\ Collected =>
           \A i \in 1..Len(stats) :
               fs[stats[i].full_name] = NoFiles => ZeroRecord(stats[i])
    /\ pc = "done" =>
           /\ page.ok
           /\ \A r \in Range(repos) :
                  Count(page.cards \o page.crickets, r) = Count(repos, r)

AllZero(r) ==
    r.views_unique = 0 /\ r.clones_unique = 0 /\ r.stars = 0 /\ r.forks = 0
AnyPositive(r) ==
    r.views_unique > 0 \/ r.clones_unique > 0 \/ r.stars > 0 \/ r.forks > 0

\* Where the page puts a repository according to its flag, and that a
\* repository whose four values are zero is not a card.
RenderedByFlag ==
    pc = "done" =>
        \A i \in 1..Len(stats) :
            /\ stats[i].has_activity =>
                   /\ stats[i].full_name \notin Range(page.crickets)
                   /\ page.ok => stats[i].full_name \in Range(page.cards)
            /\ AllZero(stats[i]) =>
                   /\ stats[i].full_name \notin Range(page.cards)
                   /\ page.ok => stats[i].full_name \in Range(page.crickets)

\* C6 as claimed: the flag is set exactly when one of the four values is
\* nonzero, negative values included.
C6_ActiveIffNonzero ==
    /\ Collected =>
           \A i \in 1..Len(stats) : stats[i].has_activity <=> ~AllZero(stats[i])
    /\ RenderedByFlag

\* C6 as amended: the flag is set exactly when one of the four values is
\* greater than zero; a repository with the flag is rendered only as a card
\* and one whose four values are zero only as a crickets row.
C6_ActiveIffPositive ==
    /\ Collected =>
           \A i \in 1..Len(stats) : stats[i].has_activity <=> AnyPositive(stats[i])
    /\ RenderedByFlag

\* A page with a card and with the crickets row of a repository that has a
\* negative value and no positive one.
C6_Witness ==
    /\ pc = "done" /\ page.ok
    /\ page.cards # <<>>
    /\ \E j \in 1..Len(stats) :
           /\ ~AllZero(stats[j]) /\ ~stats[j].has_activity
           /\ stats[j].full_name \in Range(page.crickets)

Ascending(dates) ==
    \A i, j \in 1..Len(dates) : i < j => dates[i] <= dates[j]

Dates(pairs) == [i \in 1..Len(pairs) |-> pairs[i].date]
Values(pairs) == [i \in 1..Len(pairs) |-> pairs[i].value]

\* The rows of a views/clones file that pass the test of line 87, in the
\* order of the file.
InWindowRows(rows) == SelectSeq(rows, VcInWindow)

\* Each element of the four series of a record is taken from one row of the
\* files of its repository: the cumulative series from the pairs of lines
\* 128-130, the views and clones series from the rows that line 90 and 91
\* append for.
ElementsFromRows(r, files) ==
    /\ r.stars_series = Values(CumSeriesPairs(files.stars))
    /\ r.forks_series = Values(CumSeriesPairs(files.forks))
    /\ files.views.exists =>
           /\ Len(r.views_series) = Len(VcSeriesDates(VcStart, files.views.rows))
           /\ Len(r.clones_series) = Len(VcSeriesDates(VcStart, files.views.rows))
    /\ ~files.views.exists => (r.views_series = <<>> /\ r.clones_series = <<>>)

ViewsDates(files) ==
    IF files.views.exists THEN VcSeriesDates(VcStart, files.views.rows) ELSE <<>>

\* C11 as claimed: in every record, for every order of the rows of the
\* files, the elements of each of the four series are in ascending order of
\* the timestamps of the rows they are taken from.
C11_AllSeriesChronological ==
    Collected =>
        \A i \in 1..Len(stats) :
            LET files == fs[stats[i].full_name]
            IN  /\ ElementsFromRows(stats[i], files)
                /\ Ascending(Dates(CumSeriesPairs(files.stars)))
                /\ Ascending(Dates(CumSeriesPairs(files.forks)))
                /\ Ascending(ViewsDates(files))

\* C11 as amended: for every order of the rows of the files, the stars and
\* forks series are in ascending order of the timestamps of their rows; the
\* views and clones series are in the order of the file: their elements are
\* the unique views and unique clones of the rows of the file that pass the
\* window test, in file order, up to a row that raises if there is one and
\* to the end of the file otherwise.
C11_CumulativeSortedViewsInFileOrder ==
    Collected =>
        \A i \in 1..Len(stats) :
            LET files == fs[stats[i].full_name]
                rows == files.views.rows
            IN  /\ ElementsFromRows(stats[i], files)
                /\ Ascending(Dates(CumSeriesPairs(files.stars)))
                /\ Ascending(Dates(CumSeriesPairs(files.forks)))
                /\ \E k \in 0..Len(rows) :
                       LET taken == InWindowRows(SubSeq(rows, 1, k))
                       IN  /\ ViewsDates(files)
                                = [n \in 1..Len(taken) |->
                                      parse_date(taken[n].time_iso8601).dt]
                           /\ stats[i].views_series
                                = [n \in 1..Len(taken) |->
                                      FieldOrZero(taken[n].views_unique)]
                           /\ stats[i].clones_series
                                = [n \in 1..Len(taken) |->
                                      FieldOrZero(taken[n].clones_unique)]
                           /\ (\A n \in 1..Len(rows) :
                                   VcInWindow(rows[n]) => Text \notin RowFields(rows[n]))
                                  => k = Len(rows)

\* A record whose stars file has its rows in descending order of date, so
\* that the series is not in file order, and whose views file has its rows
\* in descending order of date, so that the views series is not in
\* ascending order of date.
C11_Witness ==
    /\ Collected
    /\ \E i \in 1..Len(stats) :
           LET files == fs[stats[i].full_name]
           IN  /\ files.stars.exists /\ files.views.exists
               /\ Len(stats[i].stars_series) >= 2
               /\ stats[i].stars_series
                      # [n \in 1..Len(files.stars.rows) |->
                            FieldOrZero(files.stars.rows[n].value)]
               /\ Len(stats[i].views_series) >= 2
               /\ ~Ascending(ViewsDates(files))

(***************************************************************************)
(* generate_sparkline_svg on one pair of sequences.                        *)
(***************************************************************************)
\* The function does not read the clock: the run is taken at one instant.
InitSpark ==
    /\ now = DateTime(Today, 1)
    /\ spark_in \in SparkArgs
    /\ spark_out = Unset
    /\ IdleDate /\ IdleViews /\ IdleCum /\ IdleMain

SparklineCall ==
    /\ ~spark_out.set
    /\ spark_out' =
           [set |-> TRUE,
            result |-> generate_sparkline_svg(
                           spark_in.series1, spark_in.series2, spark_in.width,
                           spark_in.height, spark_in.cumulative)]
    /\ UNCHANGED <<now, date_str, parsed, vc, tally, cum_in, cum_out, repos, fs,
                   stats, page, pc, spark_in>>

NextSpark == SparklineCall

SpecSpark == InitSpark /\ [][NextSpark]_vars

\* The points of a sequence as claimed: one point at x = 0 for a sequence
\* of length 1; n points, the first at x = 0 and the last at x = width,
\* for a sequence of length n >= 2.
PointsAsClaimed(series, points, width) ==
    /\ Len(series) = 1 => points = <<0>>
    /\ Len(series) >= 2 =>
           /\ Len(points) = Len(series)
           /\ points[1] = 0
           /\ points[Len(points)] = 10 * width

\* C12: for every pair of integer sequences and positive width and height
\* the call returns without raising; the step divisor and the value-range
\* divisor are never 0; and each sequence is drawn with the points claimed.
C12_SparklineNeverFails ==
    spark_out.set =>
        LET all_values == spark_in.series1 \o spark_in.series2
        IN  /\ spark_out.result.ok
            /\ StepDivisor(spark_in.series1) # 0
            /\ StepDivisor(spark_in.series2) # 0
            /\ (all_values # <<>> /\ SeqMax(all_values) # 0) =>
                   ValRange(all_values, spark_in.cumulative) # 0
            /\ PointsAsClaimed(spark_in.series1, spark_out.result.points1,
                               spark_in.width)
            /\ PointsAsClaimed(spark_in.series2, spark_out.result.points2,
                               spark_in.width)

====
